---- MODULE Spec2Model ----
(***************************************************************************)
(* FAWN Weather Dashboard (src/app.py): a Streamlit script that is re-run  *)
(* top to bottom on every widget change.  One rendering pass is            *)
(*   load_data -> sidebar widgets -> apply filters -> key metrics ->       *)
(*   station statistics -> rain summary -> two scatter samples.            *)
(* The model keeps the CSV file, the st.cache_data memo, the script's      *)
(* globals (df, widget values, filtered_df, the computed outputs) and the  *)
(* script's position pc.                                                   *)
(*                                                                         *)
(* Numbers: temperatures and rainfall are integers; a mean is the exact    *)
(* rational <<sum, count>>; a value rounded to two decimals is an integer  *)
(* number of hundredths.  NaN and NaT are the empty tuple.                 *)
(* Not modelled: the 'Std Dev' column of station_stats (a square root),    *)
(* the f-string formatting of the metrics, the charts themselves, the      *)
(* "Show Raw Data" table and its CSV download.  Every numeric cell of the  *)
(* file holds a number, and the file has at least one row.                 *)
(***************************************************************************)
EXTENDS Integers, Sequences, FiniteSets

VARIABLES file, cache, reads, df, selected_station, date_range,
          selected_season, temp_range, filtered_df, metrics, station_stats,
          rain, scatter, pc

vars == <<file, cache, reads, df, selected_station, date_range,
          selected_season, temp_range, filtered_df, metrics, station_stats,
          rain, scatter, pc>>

widgets == <<selected_station, date_range, selected_season, temp_range>>
outputs == <<filtered_df, metrics, station_stats, rain, scatter>>

(* ---------------------------- bounds ----------------------------------- *)
MaxRows == 2

\* station names in sorted order (sorted() of line 54, groupby's key order)
StationOrder == <<"Alachua", "Balm">>
Stations == {StationOrder[i] : i \in 1..Len(StationOrder)}
Seasons == {"Summer", "Winter"}
\* the 'Period' cells of the file: two parseable ones and one that is not
PeriodCells == {"2024-01-01 00:00", "2024-01-02 12:00", "n/a"}
Temps == {70, 80}
Rains == {0, 1}
Humidities == {50}
Winds == {5}
Comforts == {60}
\* the optional columns a dataset variant may carry
Schemas == {{"Period", "Season", "Comfort_Index"}, {"Period"}, {"Season"}, {}}

(* ----------------------- program constants ----------------------------- *)
\* line 91: len(date_range) == 2
RangeLen == 2
\* line 213: * 100
Percent == 100
\* lines 261, 278: min(1000, len(filtered_df))
SampleCap == 1000
\* line 184: .round(2)
Decimals == 2

(* ---------------------------- values ----------------------------------- *)
NaT == <<>>
NaN == <<>>
\* a cell of a column the file does not have (never read)
NoCell == ""
NoNumber == CHOOSE x \in Comforts : TRUE
\* a global the script has not bound yet in this pass
Unbound == [columns |-> {"<unbound>"}, rows |-> <<>>]
Unset == "<unset>"
NoRange == [given |-> FALSE, dates |-> <<>>]
NoMetrics == <<>>
NoRain == <<>>
AllStations == "All Stations"
AllSeasons == "All Seasons"

(* ------------------------- the CSV file -------------------------------- *)
RawRows(cols) ==
    [station : Stations,
     period  : IF "Period" \in cols THEN PeriodCells ELSE {NoCell},
     season  : IF "Season" \in cols THEN Seasons ELSE {NoCell},
     temp    : Temps,
     rain    : Rains,
     hum     : Humidities,
     wind    : Winds,
     comfort : IF "Comfort_Index" \in cols THEN Comforts ELSE {NoNumber}]

SeqsUpTo(S, n) == UNION {[1..k -> S] : k \in 1..n}

Files == UNION {[columns : {cols}, rows : SeqsUpTo(RawRows(cols), MaxRows)] :
                cols \in Schemas}

(* ------------------------- load_data ----------------------------------- *)
\* pd.to_datetime(..., errors='coerce') on one cell: <<day, hour>>, or NaT
\* for a cell that does not parse
ToDatetime(cell) ==
    CASE cell = "2024-01-01 00:00" -> <<1, 0>>
      [] cell = "2024-01-02 12:00" -> <<2, 12>>
      [] OTHER -> NaT

\* pd.read_csv followed by the 'Period' conversion
ReadCsv(f) ==
    [columns |-> f.columns,
     rows |-> [i \in 1..Len(f.rows) |->
                 [f.rows[i] EXCEPT !.period =
                     IF "Period" \in f.columns THEN ToDatetime(@) ELSE NaT]]]

\* load_data() without the memo: the file is read on every call
LoadDataUncached ==
    /\ pc = "load"
    /\ cache' = ReadCsv(file)
    /\ reads' = reads + 1
    /\ df' = cache'
    /\ pc' = "sidebar"
    /\ UNCHANGED <<file, widgets, outputs>>

\* load_data() under @st.cache_data: the body runs on the first call only;
\* every call hands the script its own copy of the memoized table
LoadData ==
    /\ pc = "load"
    /\ \/ /\ cache = Unbound
          /\ cache' = ReadCsv(file)
          /\ reads' = reads + 1
       \/ /\ cache # Unbound
          /\ UNCHANGED <<cache, reads>>
    /\ df' = cache'
    /\ pc' = "sidebar"
    /\ UNCHANGED <<file, widgets, outputs>>

(* ------------------------- sidebar widgets ----------------------------- *)
Rows(t) == {t.rows[i] : i \in 1..Len(t.rows)}

TsLeq(a, b) == a[1] < b[1] \/ (a[1] = b[1] /\ a[2] <= b[2])
\* Timestamp.date(), Series.dt.date: the date portion; NaT stays missing
DtDate(ts) == IF ts = NaT THEN NaT ELSE <<ts[1]>>

Periods(t) == {r.period : r \in Rows(t)} \ {NaT}
\* df['Period'].min() / .max(): missing values are skipped
PeriodMin(t) == CHOOSE a \in Periods(t) : \A b \in Periods(t) : TsLeq(a, b)
PeriodMax(t) == CHOOSE a \in Periods(t) : \A b \in Periods(t) : TsLeq(b, a)

\* line 58: 'Period' in df.columns and df['Period'].notna().any()
HasDates(t) == "Period" \in t.columns /\ Periods(t) # {}

TempMin(t) == CHOOSE a \in {r.temp : r \in Rows(t)} : \A r \in Rows(t) : a <= r.temp
TempMax(t) == CHOOSE a \in {r.temp : r \in Rows(t)} : \A r \in Rows(t) : r.temp <= a

\* the value each widget shows before the user touches it
DefaultDateRange(t) ==
    IF HasDates(t)
    THEN [given |-> TRUE, dates |-> DtDate(PeriodMin(t)) \o DtDate(PeriodMax(t))]
    ELSE NoRange
DefaultTempRange(t) == <<TempMin(t), TempMax(t)>>

\* the values each widget can hold for table t
StationOptions(t) == {AllStations} \cup {r.station : r \in Rows(t)}
\* st.date_input in range mode hands back a tuple of zero, one or two dates
\* inside [min_value, max_value]
DateRangeOptions(t) ==
    IF HasDates(t)
    THEN LET ds == DtDate(PeriodMin(t))[1]..DtDate(PeriodMax(t))[1]
         IN  [given : {TRUE},
              dates : {<<>>} \cup {<<d>> : d \in ds}
                             \cup {p \in ds \X ds : p[1] <= p[2]}]
    ELSE {NoRange}
SeasonOptions(t) ==
    IF "Season" \in t.columns
    THEN {AllSeasons} \cup {r.season : r \in Rows(t)}
    ELSE {AllSeasons}
TempRangeOptions(t) ==
    LET stops == {x \in Temps : TempMin(t) <= x /\ x <= TempMax(t)}
    IN  {p \in stops \X stops : p[1] <= p[2]}

\* lines 53-83: a widget keeps the user's last choice; on the first pass it
\* takes its default
Sidebar ==
    /\ pc = "sidebar"
    /\ IF selected_station = Unset
       THEN /\ selected_station' = AllStations
            /\ date_range' = DefaultDateRange(df)
            /\ selected_season' = AllSeasons
            /\ temp_range' = DefaultTempRange(df)
       ELSE UNCHANGED widgets
    /\ pc' = "filter"
    /\ UNCHANGED <<file, cache, reads, df, outputs>>

\* the user changes widgets; Streamlit re-runs the script from the top with
\* fresh globals
Interact ==
    /\ pc = "idle"
    /\ selected_station' \in StationOptions(df)
    /\ date_range' \in DateRangeOptions(df)
    /\ selected_season' \in SeasonOptions(df)
    /\ temp_range' \in TempRangeOptions(df)
    /\ df' = Unbound
    /\ filtered_df' = Unbound
    /\ metrics' = NoMetrics
    /\ station_stats' = <<>>
    /\ rain' = NoRain
    /\ scatter' = <<>>
    /\ pc' = "load"
    /\ UNCHANGED <<file, cache, reads>>

(* ------------------------- apply filters ------------------------------- *)
\* df[mask]: the rows whose mask entry is True, in their original order
Mask(t, Test(_)) == [t EXCEPT !.rows = SelectSeq(t.rows, Test)]

\* df[::-1].copy(): a copy that does not keep the row order
DfCopyReversed(t) ==
    [t EXCEPT !.rows = [i \in 1..Len(t.rows) |-> t.rows[Len(t.rows) + 1 - i]]]

\* line 86: df.copy()
DfCopy(t) == t

StationPred(r, sel) == r.station = sel
\* the bounds compared with the timestamp instead of its date portion
DatePredTimestamp(r, dr) ==
    /\ r.period # NaT
    /\ TsLeq(<<dr.dates[1], 0>>, r.period)
    /\ TsLeq(r.period, <<dr.dates[2], 0>>)
\* lines 93-94 on one row; a comparison with a missing date is False
DatePred(r, dr) ==
    LET d == DtDate(r.period)
    IN  d # NaT /\ d[1] >= dr.dates[1] /\ d[1] <= dr.dates[2]
SeasonPred(r, sel) == r.season = sel
TempPred(r, tr) == r.temp >= tr[1] /\ r.temp <= tr[2]

\* line 88
StationActive(sel) == sel # AllStations
\* line 91: date_range and len(date_range) == 2
DateActive(dr) == dr.given /\ dr.dates # <<>> /\ Len(dr.dates) = RangeLen
\* line 97
SeasonActive(t, sel) == sel # AllSeasons /\ "Season" \in t.columns

\* lines 88-89
FilterStation(t, sel) ==
    IF StationActive(sel) THEN Mask(t, LAMBDA r : StationPred(r, sel)) ELSE t
\* a lone start date treated as a one-day range
FilterDateSingleDay(t, dr) ==
    IF DateActive(dr) THEN Mask(t, LAMBDA r : DatePred(r, dr))
    ELSE IF dr.given /\ Len(dr.dates) = 1
         THEN Mask(t, LAMBDA r : DtDate(r.period) = <<dr.dates[1]>>)
         ELSE t
\* lines 91-95
FilterDate(t, dr) ==
    IF DateActive(dr) THEN Mask(t, LAMBDA r : DatePred(r, dr)) ELSE t
\* the season mask applied to df instead of filtered_df
FilterSeasonOfDf(t, sel) ==
    IF SeasonActive(t, sel) THEN Mask(df, LAMBDA r : SeasonPred(r, sel)) ELSE t
\* lines 97-98
FilterSeason(t, sel) ==
    IF SeasonActive(t, sel) THEN Mask(t, LAMBDA r : SeasonPred(r, sel)) ELSE t
\* lines 100-103
FilterTemp(t, tr) == Mask(t, LAMBDA r : TempPred(r, tr))

\* the filters applied to df itself, without the copy
ApplyFiltersInPlace ==
    /\ pc = "filter"
    /\ filtered_df' =
         FilterTemp(
           FilterSeason(
             FilterDate(
               FilterStation(df, selected_station),
               date_range),
             selected_season),
           temp_range)
    /\ df' = filtered_df'
    /\ pc' = "metrics"
    /\ UNCHANGED <<file, cache, reads, widgets, metrics, station_stats,
                   rain, scatter>>

\* lines 85-105
ApplyFilters ==
    /\ pc = "filter"
    /\ filtered_df' =
         FilterTemp(
           FilterSeason(
             FilterDate(
               FilterStation(DfCopy(df), selected_station),
               date_range),
             selected_season),
           temp_range)
    /\ pc' = "metrics"
    /\ UNCHANGED <<file, cache, reads, df, widgets, metrics, station_stats,
                   rain, scatter>>

(* ------------------------- key metrics --------------------------------- *)
RECURSIVE Sum(_)
Sum(xs) == IF xs = <<>> THEN 0 ELSE Head(xs) + Sum(Tail(xs))

\* Series.sum(): 0 for an empty column
ColSum(xs) == Sum(xs)
\* Series.mean(): the exact quotient <<sum, count>>, NaN for an empty column
ColMean(xs) == IF Len(xs) = 0 THEN NaN ELSE <<Sum(xs), Len(xs)>>

Temp(t) == [i \in 1..Len(t.rows) |-> t.rows[i].temp]
Rain(t) == [i \in 1..Len(t.rows) |-> t.rows[i].rain]
Hum(t) == [i \in 1..Len(t.rows) |-> t.rows[i].hum]
Wind(t) == [i \in 1..Len(t.rows) |-> t.rows[i].wind]
Comfort(t) == [i \in 1..Len(t.rows) |-> t.rows[i].comfort]
\* Series.nunique()
NUnique(t) == Cardinality({r.station : r \in Rows(t)})

\* line 105 and lines 108-133
KeyMetrics ==
    /\ pc = "metrics"
    /\ metrics' =
         <<[count |-> Len(filtered_df.rows),
            avg_temp |-> ColMean(Temp(filtered_df)),
            total_rain |-> ColSum(Rain(filtered_df)),
            avg_humidity |-> ColMean(Hum(filtered_df)),
            avg_wind |-> ColMean(Wind(filtered_df)),
            col5 |-> IF "Comfort_Index" \in filtered_df.columns
                     THEN [label |-> "Comfort Index",
                           value |-> ColMean(Comfort(filtered_df))]
                     ELSE [label |-> "Stations",
                           value |-> <<NUnique(filtered_df)>>]]>>
    /\ pc' = "stats"
    /\ UNCHANGED <<file, cache, reads, df, widgets, filtered_df,
                   station_stats, rain, scatter>>

(* ------------------------- station statistics -------------------------- *)
RECURSIVE Pow10(_)
Pow10(n) == IF n = 0 THEN 1 ELSE 10 * Pow10(n - 1)

\* .round(n) of the quotient q[1] / q[2], as an integer number of 10^-n
\* units; an exact half goes to the even neighbour
Round(q, n) ==
    LET num == q[1] * Pow10(n)
        lo  == num \div q[2]
        rem == num % q[2]
    IN  IF 2 * rem > q[2] THEN lo + 1
        ELSE IF 2 * rem < q[2] THEN lo
        ELSE IF lo % 2 = 0 THEN lo ELSE lo + 1

SeqMin(xs) == CHOOSE a \in {xs[i] : i \in 1..Len(xs)} :
                 \A i \in 1..Len(xs) : a <= xs[i]
SeqMax(xs) == CHOOSE a \in {xs[i] : i \in 1..Len(xs)} :
                 \A i \in 1..Len(xs) : xs[i] <= a

\* groupby('FAWN Station'): the stations present, in sorted key order
GroupKeys(t) == SelectSeq(StationOrder, LAMBDA k : \E r \in Rows(t) : r.station = k)

\* lines 182-185: one row of statistics per station, rounded to 2 decimals
GroupStats(t, k) ==
    LET g == Temp(Mask(t, LAMBDA r : r.station = k))
    IN  [station |-> k,
         Mean |-> Round(ColMean(g), Decimals),
         Min  |-> Round(<<SeqMin(g), 1>>, Decimals),
         Max  |-> Round(<<SeqMax(g), 1>>, Decimals)]

Grouped(t) == [i \in 1..Len(GroupKeys(t)) |-> GroupStats(t, GroupKeys(t)[i])]

Perms(n) == {p \in [1..n -> 1..n] : \A i, j \in 1..n : p[i] = p[j] => i = j}

\* line 186: sort_values('Mean', ascending=False) with the default
\* kind='quicksort', which is not a stable sort: every arrangement of the
\* rows with non-increasing Mean is a possible result
SortValuesDesc(g) ==
    {[i \in 1..Len(g) |-> g[p[i]]] : p \in
       {q \in Perms(Len(g)) :
          \A i \in 1..Len(g) - 1 : g[q[i]].Mean >= g[q[i + 1]].Mean}}

\* lines 181-186
StationStats ==
    /\ pc = "stats"
    /\ station_stats' \in SortValuesDesc(Grouped(filtered_df))
    /\ pc' = "rain"
    /\ UNCHANGED <<file, cache, reads, df, widgets, filtered_df, metrics,
                   rain, scatter>>

(* ------------------------- rain summary -------------------------------- *)
\* line 213 without its guard: the quotient of a division by zero
RainPctUnguarded(rain_days, total_days) == <<rain_days * Percent, total_days>>

\* line 213: the percentage as the exact quotient <<numerator, denominator>>
RainPct(rain_days, total_days) ==
    IF total_days > 0 THEN <<rain_days * Percent, total_days>> ELSE <<0, 1>>

\* the mask with >= in place of >
RainDataNonStrict(t) == Mask(t, LAMBDA r : r.rain >= 0)

\* line 211 / 218: the mask is rainfall > 0
RainData(t) == Mask(t, LAMBDA r : r.rain > 0)

\* lines 210-218
RainSummary ==
    /\ pc = "rain"
    /\ rain' = <<[rain_days |-> Len(RainData(filtered_df).rows),
                  total_days |-> Len(filtered_df.rows),
                  rain_pct |-> RainPct(Len(RainData(filtered_df).rows),
                                       Len(filtered_df.rows)),
                  rain_data |-> RainData(filtered_df)]>>
    /\ pc' = "scatter_humidity"
    /\ UNCHANGED <<file, cache, reads, df, widgets, filtered_df, metrics,
                   station_stats, scatter>>

(* ------------------------- scatter samples ----------------------------- *)
Min2(a, b) == IF a <= b THEN a ELSE b

\* DataFrame.sample(n): n rows drawn without replacement, in drawn order
Sample(t, n) ==
    {[i \in 1..n |-> t.rows[p[i]]] : p \in
       {q \in [1..n -> 1..Len(t.rows)] : \A i, j \in 1..n : q[i] = q[j] => i = j}}

\* line 261
ScatterHumidity ==
    /\ pc = "scatter_humidity"
    /\ scatter' \in Sample(filtered_df, Min2(SampleCap, Len(filtered_df.rows)))
    /\ pc' = "scatter_wind"
    /\ UNCHANGED <<file, cache, reads, df, widgets, filtered_df, metrics,
                   station_stats, rain>>

\* line 278; the script then runs to its end and waits for the next
\* interaction
ScatterWind ==
    /\ pc = "scatter_wind"
    /\ scatter' \in Sample(filtered_df, Min2(SampleCap, Len(filtered_df.rows)))
    /\ pc' = "idle"
    /\ UNCHANGED <<file, cache, reads, df, widgets, filtered_df, metrics,
                   station_stats, rain>>

(* ------------------------- specification ------------------------------- *)
Init ==
    /\ file \in Files
    /\ cache = Unbound
    /\ reads = 0
    /\ df = Unbound
    /\ selected_station = Unset
    /\ date_range = NoRange
    /\ selected_season = Unset
    /\ temp_range = <<>>
    /\ filtered_df = Unbound
    /\ metrics = NoMetrics
    /\ station_stats = <<>>
    /\ rain = NoRain
    /\ scatter = <<>>
    /\ pc = "load"

Next ==
    \/ LoadData
    \/ Sidebar
    \/ ApplyFilters
    \/ KeyMetrics
    \/ StationStats
    \/ RainSummary
    \/ ScatterHumidity
    \/ ScatterWind
    \/ Interact

Spec == Init /\ [][Next]_vars

(* ------------------------- properties ---------------------------------- *)
\* the filter block has just run (filtered_df stays as it is for the rest of
\* the pass)
Filtered == pc = "metrics"

\* a is b with some rows left out: an order-keeping, one-to-one matching of
\* the rows of a with equal rows of b
IsSubSeq(a, b) ==
    \E f \in [1..Len(a) -> 1..Len(b)] :
       /\ \A i \in 1..Len(a) : a[i] = b[f[i]]
       /\ \A i, j \in 1..Len(a) : i < j => f[i] < f[j]

\* C1: the filtered table is a subset of the loaded table: every output row
\* is an input row with equal values, no row occurs more often than in the
\* input, and the rows keep their relative order.
C1_FilteredIsSubset ==
    Filtered =>
       /\ filtered_df.columns = df.columns
       /\ IsSubSeq(filtered_df.rows, df.rows)

C1_Witness ==
    /\ Filtered
    /\ Len(df.rows) = 2
    /\ df.rows[1] # df.rows[2]
    /\ filtered_df.rows = <<df.rows[2]>>

IdentityCriteria ==
    /\ selected_station = AllStations
    /\ selected_season = AllSeasons
    /\ date_range = DefaultDateRange(df)
    /\ temp_range = DefaultTempRange(df)

\* C2: with every widget at its default (All Stations, All Seasons, the
\* full date span, the full temperature span) the filtered table equals the
\* loaded table, also when some rows have a missing timestamp.
C2_IdentityReturnsAll ==
    (Filtered /\ IdentityCriteria) => filtered_df = df

\* the four filters by number, and their application in a given order
FilterBy(k, t) ==
    CASE k = 1 -> FilterStation(t, selected_station)
      [] k = 2 -> FilterDate(t, date_range)
      [] k = 3 -> FilterSeason(t, selected_season)
      [] k = 4 -> FilterTemp(t, temp_range)

RECURSIVE Chain(_, _)
Chain(order, t) ==
    IF order = <<>> THEN t ELSE Chain(Tail(order), FilterBy(Head(order), t))

StationOk(r) == selected_station = AllStations \/ r.station = selected_station
SeasonOk(r) ==
    \/ selected_season = AllSeasons
    \/ "Season" \notin df.columns
    \/ r.season = selected_season
TempOk(r) == temp_range[1] <= r.temp /\ r.temp <= temp_range[2]
DateRangeGiven == date_range.given /\ Len(date_range.dates) = 2
DateOk(r) ==
    DateRangeGiven =>
       /\ r.period # NaT
       /\ date_range.dates[1] <= r.period[1]
       /\ r.period[1] <= date_range.dates[2]

\* C3: the filters commute: applied in any of the 24 orders they give the
\* table the code's order gives, which is the rows of the loaded table that
\* satisfy the conjunction of the active predicates.
C3_FilterOrderIndependent ==
    Filtered =>
       /\ \A p \in Perms(4) : Chain(p, df) = filtered_df
       /\ filtered_df.rows =
            SelectSeq(df.rows,
                      LAMBDA r : StationOk(r) /\ DateOk(r) /\ SeasonOk(r) /\ TempOk(r))

C3_Witness ==
    /\ Filtered
    /\ selected_station # AllStations
    /\ selected_season # AllSeasons
    /\ DateRangeGiven
    /\ Len(filtered_df.rows) < Len(df.rows)
    /\ \E r \in Rows(df) : StationOk(r) /\ ~SeasonOk(r) /\ DateOk(r) /\ TempOk(r)
    /\ \E r \in Rows(df) : ~StationOk(r) /\ SeasonOk(r) /\ DateOk(r) /\ TempOk(r)

\* C4: with a date filter [start, end] active the filtered table is exactly
\* the rows passing the other filters whose date portion d has
\* start <= d <= end, both ends included; a row with a missing timestamp is
\* left out, yet every row of the file, unparseable timestamp or not, is in
\* the loaded table.
C4_DateFilterInclusive ==
    /\ (pc = "sidebar") =>
         /\ Len(df.rows) = Len(file.rows)
         /\ \A i \in 1..Len(file.rows) :
               /\ df.rows[i] = [file.rows[i] EXCEPT !.period = df.rows[i].period]
               /\ ("Period" \in file.columns /\ file.rows[i].period = "n/a")
                     => df.rows[i].period = NaT
    /\ (Filtered /\ DateRangeGiven) =>
         /\ filtered_df.rows =
              SelectSeq(df.rows,
                        LAMBDA r : /\ StationOk(r) /\ SeasonOk(r) /\ TempOk(r)
                                   /\ r.period # NaT
                                   /\ date_range.dates[1] <= r.period[1]
                                   /\ r.period[1] <= date_range.dates[2])
         /\ \A r \in Rows(filtered_df) : r.period # NaT

C4_Witness ==
    /\ Filtered
    /\ DateRangeGiven
    /\ \E r \in Rows(df) : r.period = NaT
    /\ \E r \in Rows(filtered_df) : r.period[1] = date_range.dates[2] /\ r.period[2] > 0
    /\ \E i \in 1..Len(file.rows) : file.rows[i].period = "n/a"

RainDayCount(t) == Cardinality({i \in 1..Len(t.rows) : t.rows[i].rain > 0})

\* C5 (as amended): rain_days counts exactly the rows with rainfall
\* strictly above 0; the reported value is the percentage
\* 100 * rain_days / total_days, which lies in [0, 100], and is 0,
\* with no division by zero, when there are no rows.
C5_RainPercentage ==
    (pc = "scatter_humidity") =>
       LET r == rain[1]
           n == Len(filtered_df.rows)
       IN  /\ r.total_days = n
           /\ r.rain_days = RainDayCount(filtered_df)
           /\ r.rain_data.rows = SelectSeq(filtered_df.rows, LAMBDA x : x.rain > 0)
           /\ r.rain_pct[2] > 0
           /\ r.rain_pct[1] * n = Percent * r.rain_days * r.rain_pct[2]
           /\ 0 <= r.rain_pct[1]
           /\ r.rain_pct[1] <= Percent * r.rain_pct[2]
           /\ (n = 0 => r.rain_pct[1] = 0)

C5_Witness ==
    /\ pc = "scatter_humidity"
    /\ rain[1].total_days = 2
    /\ rain[1].rain_days = 1
    /\ \E x \in Rows(filtered_df) : x.rain = 0

\* C5 (as stated): the reported value equals rain_days / total_days and
\* lies in [0, 1].
C5_RainFractionInUnitInterval ==
    (pc = "scatter_humidity") =>
       LET r == rain[1]
           n == Len(filtered_df.rows)
       IN  /\ r.rain_pct[2] > 0
           /\ r.rain_pct[1] * n = r.rain_days * r.rain_pct[2]
           /\ 0 <= r.rain_pct[1]
           /\ r.rain_pct[1] <= r.rain_pct[2]

\* position of station k in the grouping
GroupIndex(t, k) == CHOOSE i \in 1..Len(GroupKeys(t)) : GroupKeys(t)[i] = k

\* C6: station_stats lists each station of the filtered table exactly once,
\* by Mean descending, and stations with equal Mean keep the order they
\* have in the grouping.
C6_StationBreakdownStable ==
    (pc = "rain") =>
       /\ Len(station_stats) = Cardinality({r.station : r \in Rows(filtered_df)})
       /\ \A r \in Rows(filtered_df) :
             \E i \in 1..Len(station_stats) : station_stats[i].station = r.station
       /\ \A i, j \in 1..Len(station_stats) :
             i < j =>
                \/ station_stats[i].Mean > station_stats[j].Mean
                \/ /\ station_stats[i].Mean = station_stats[j].Mean
                   /\ GroupIndex(filtered_df, station_stats[i].station)
                        < GroupIndex(filtered_df, station_stats[j].station)

\* C7: when the criteria select no row of a non-empty table the pass runs
\* to its end with: count 0, every mean NaN, rainfall sum 0, rain-day count
\* and percentage 0, an empty station breakdown and an empty sample.
C7_EmptyResultDegenerate ==
    (filtered_df # Unbound /\ Len(filtered_df.rows) = 0) =>
       /\ (metrics # NoMetrics) =>
             /\ metrics[1].count = 0
             /\ metrics[1].avg_temp = NaN
             /\ metrics[1].avg_humidity = NaN
             /\ metrics[1].avg_wind = NaN
             /\ metrics[1].total_rain = 0
             /\ ("Comfort_Index" \in df.columns) => metrics[1].col5.value = NaN
       /\ (pc \in {"rain", "scatter_humidity", "scatter_wind", "idle"})
             => station_stats = <<>>
       /\ (rain # NoRain) =>
             /\ rain[1].rain_days = 0
             /\ rain[1].rain_pct[1] = 0
             /\ rain[1].rain_pct[2] # 0
             /\ rain[1].rain_data.rows = <<>>
       /\ (pc \in {"scatter_wind", "idle"}) => scatter = <<>>
       /\ (pc = "metrics") => metrics = NoMetrics
       /\ (pc = "stats") => metrics # NoMetrics
       /\ (pc \in {"scatter_humidity", "scatter_wind", "idle"}) => rain # NoRain

C7_Witness ==
    /\ pc = "idle"
    /\ Len(df.rows) >= 2
    /\ Len(filtered_df.rows) = 0
    /\ rain # NoRain
    /\ metrics # NoMetrics
    /\ "Comfort_Index" \in df.columns

\* C8: the loaded table never changes after load: the memoized table keeps
\* its rows and values over every step of every pass, and the table a pass
\* works on equals it at every step.
C8_LoadedTableImmutable ==
    [][/\ (cache # Unbound) => cache' = cache
       /\ (df' # Unbound) => df' = cache']_vars

C8_Witness ==
    /\ pc = "idle"
    /\ selected_station # AllStations
    /\ Len(filtered_df.rows) < Len(df.rows)
    /\ Len(filtered_df.rows) > 0
    /\ scatter # <<>>

\* C9: the CSV file is read at most once, on the first call of load_data;
\* every later call returns the table loaded then.
C9_LoadMemoized ==
    /\ reads <= 1
    /\ (cache = Unbound) <=> (reads = 0)
    /\ (df # Unbound) => df = ReadCsv(file)

C9_Witness ==
    /\ pc = "sidebar"
    /\ selected_station # Unset
    /\ reads = 1
    /\ df = cache

\* C10: when date_range is None or does not hold exactly two dates the date
\* predicate is skipped: the filtered table is exactly the rows passing the
\* station, season and temperature predicates, whatever their date, rows
\* with a missing timestamp included.
C10_DateFilterSkipped ==
    (Filtered /\ ~DateRangeGiven) =>
       filtered_df.rows =
          SelectSeq(df.rows, LAMBDA r : StationOk(r) /\ SeasonOk(r) /\ TempOk(r))

C10_Witness ==
    /\ Filtered
    /\ date_range.given
    /\ Len(date_range.dates) = 1
    /\ \E r \in Rows(filtered_df) : r.period # NaT /\ r.period[1] # date_range.dates[1]

\* the same with a row whose timestamp is missing, and with no date input at
\* all (no parseable timestamp in the table)
C10_WitnessMissingTimestamp ==
    /\ Filtered
    /\ date_range.given
    /\ \E r \in Rows(filtered_df) : r.period = NaT

C10_WitnessNoDateInput ==
    /\ Filtered
    /\ ~date_range.given
    /\ "Period" \in df.columns
    /\ \E r \in Rows(filtered_df) : r.period = NaT

====
